---- MODULE Spec2Model ----
(***************************************************************************)
(* Model of src/app.py: the AI-text detector page.                         *)
(*                                                                         *)
(* Strings are sequences of one-character strings, so that splitting,      *)
(* trimming and HTML escaping are computed character by character.         *)
(* Probabilities are exact numbers of hundredths (0.75 is 75); the mean of *)
(* the sentence scores is kept as a reduced fraction of hundredths.  The   *)
(* code computes in binary floating point: on the confidences used here,   *)
(* with up to two sentences, its tiers are those of the exact values.      *)
(* The detector is the external classifier: it answers with one            *)
(* (label, score) pair per sentence, or raises.                            *)
(***************************************************************************)
EXTENDS Integers, Sequences, FiniteSets, TLC

VARIABLES
    \* the page: one script run per session at a time, one process-wide cache
    pc,          \* per session: where its script run stands
    text_area,   \* per session: the text area's value (text), line 144
    min_len,     \* per session: the slider's value, line 156
    analyze,     \* per session: the button's value in the current run, line 154
    detector,    \* per session: the handle load_detector returned to this run, or NoHandle
    calls,       \* per session: the detector(...) calls of this run, in order
    answers,     \* per session: what the detector returned to this run (results), or NoValue
    display,     \* per session: what the run has put on the page
    cache,       \* st.cache_resource's entry for load_detector, or NoHandle
    lock,        \* the session computing the cache entry, or 0
    builds,      \* number of pipeline(...) constructions completed in this process
    \* a direct call of analyze_and_highlight followed by the verdict mapping
    h_pc,        \* "start" or "done"
    h_text,      \* the text argument
    h_dom,       \* the (label, score) pairs the detector may return in this run
    h_sentences, \* sentences, line 27
    h_results,   \* results, line 31
    h_scores,    \* sentence_scores, lines 33-38
    h_calls,     \* the detector(...) calls made, in order
    h_out,       \* the returned pair, or NoValue
    h_verdict,   \* verdict, lines 186-191
    h_bar,       \* bar_color, lines 194-199
    h_percent    \* percent, line 183, in tenths of a percent

fvars ==
    <<pc, text_area, min_len, analyze, detector, calls, answers, display, cache, lock, builds>>
hvars ==
    <<h_pc, h_text, h_dom, h_sentences, h_results, h_scores, h_calls, h_out, h_verdict, h_bar,
      h_percent>>
vars == <<fvars, hvars>>

NoValue == <<"$none">>
\* the same for a value that is a message or a colour name
NoString == "$none"

(***************************** bounds **************************************)
MaxTokLen == 5
MaxRenderLen == 3
MaxSentences == 2
NumSessions == 2
MaxBuilds == 2

(************************ characters and strings ***************************)
\* re's \s and str.strip()'s whitespace, restricted to the characters used here
Whitespace == {" ", "\n", "\t"}

\* the character class [A-Z] of line 12
UpperCase ==
    {"A","B","C","D","E","F","G","H","I","J","K","L","M",
     "N","O","P","Q","R","S","T","U","V","W","X","Y","Z"}

\* the character class [.!?] of line 12
SentenceEnd == {".", "!", "?"}

RECURSIVE Concat(_)
\* "".join(pieces)
Concat(pieces) ==
    IF pieces = <<>> THEN <<>> ELSE Head(pieces) \o Concat(Tail(pieces))

\* all strings over an alphabet of length at most n
StringsUpTo(alphabet, n) == UNION {[1..k -> alphabet] : k \in 0..n}

RECURSIVE LStrip(_)
LStrip(s) ==
    IF s # <<>> /\ Head(s) \in Whitespace THEN LStrip(Tail(s)) ELSE s

RECURSIVE RStrip(_)
RStrip(s) ==
    IF s # <<>> /\ s[Len(s)] \in Whitespace
    THEN RStrip(SubSeq(s, 1, Len(s) - 1))
    ELSE s

\* str.strip()
Strip(s) == RStrip(LStrip(s))

(************************** simple_sentence_tokenize ***********************)
\* fault: the lookbehind left out of the pattern
LookBehindNoPunct(text, i) == TRUE

\* the lookbehind (?<=[.!?]) at position i
LookBehind(text, i) == i > 1 /\ text[i - 1] \in SentenceEnd

\* the lookahead (?=[A-Z]) at position j
LookAhead(text, j) == j <= Len(text) /\ text[j] \in UpperCase

\* lengths k >= 1 such that text[i .. i+k-1] is whitespace: what \s+ can take
WsTakes(text, i) ==
    {k \in 1..(Len(text) - i + 1) :
        \A j \in i..(i + k - 1) : text[j] \in Whitespace}

\* length of the match of (?<=[.!?])\s+(?=[A-Z]) that starts at i, 0 if none:
\* \s+ is greedy and backtracks to the longest take the lookahead accepts
MatchLenAt(text, i) ==
    LET ok == {k \in WsTakes(text, i) : LookAhead(text, i + k)}
    IN IF i <= Len(text) /\ LookBehind(text, i) /\ ok # {}
       THEN CHOOSE k \in ok : \A m \in ok : m <= k
       ELSE 0

RECURSIVE SplitFrom(_, _, _)
\* re.split: scan from i for the next match; start is where the piece began
SplitFrom(text, start, i) ==
    IF i > Len(text)
    THEN <<SubSeq(text, start, Len(text))>>
    ELSE LET k == MatchLenAt(text, i)
         IN IF k > 0
            THEN <<SubSeq(text, start, i - 1)>> \o SplitFrom(text, i + k, i + k)
            ELSE SplitFrom(text, start, i + 1)

\* re.split(r'(?<=[.!?])\s+(?=[A-Z])', text), line 12
ReSplit(text) == SplitFrom(text, 1, 1)

\* [s.strip() for s in sentences if s.strip()], line 13
StripNonEmpty(pieces) ==
    LET stripped == [i \in 1..Len(pieces) |-> Strip(pieces[i])]
    IN SelectSeq(stripped, LAMBDA s : s # <<>>)

simple_sentence_tokenize(text) ==
    LET final_sentences == StripNonEmpty(ReSplit(text))
    IN IF final_sentences = <<>> /\ Strip(text) # <<>>
       THEN <<Strip(text)>>
       ELSE final_sentences

(******************************* scoring ***********************************)
\* the literals 0.0 and 1.0 of line 38, in hundredths
ProbZero == 0
ProbOne == 100
\* the highlight thresholds 0.75 and 0.5 of lines 42 and 44, in hundredths
StrongThreshold == 75
ModerateThreshold == 50
\* the verdict thresholds 0.7 and 0.4 of lines 186 and 188, in hundredths
LikelyAIThreshold == 70
PossiblyAIThreshold == 40

Min(a, b) == IF a < b THEN a ELSE b
Max(a, b) == IF a > b THEN a ELSE b

\* str.lower() on one character, for the letters the labels use
LowerChar(c) ==
    CASE c = "F" -> "f" [] c = "A" -> "a" [] c = "K" -> "k" [] c = "E" -> "e"
      [] c = "R" -> "r" [] c = "L" -> "l" [] c = "B" -> "b"
      [] OTHER -> c

\* label.lower()
Lower(label) == [i \in 1..Len(label) |-> LowerChar(label[i])]

\* the literal "fake" of line 37
PositiveLabel == <<"f","a","k","e">>

\* fault: the label compared without lower()
IsPositiveExact(label) == label = PositiveLabel

\* label.lower() == "fake", line 37
IsPositive(label) == Lower(label) = PositiveLabel

\* score if label.lower() == "fake" else 1.0 - score, line 37
AiProb(result) ==
    IF IsPositive(result.label) THEN result.score ELSE ProbOne - result.score

\* max(0.0, min(1.0, ai_prob)), line 38
Clamp(ai_prob) == Max(ProbZero, Min(ProbOne, ai_prob))

\* the loop of lines 33-38
SentenceScores(results) ==
    [i \in 1..Len(results) |-> Clamp(AiProb(results[i]))]

RECURSIVE Sum(_)
\* sum(sentence_scores)
Sum(scores) == IF scores = <<>> THEN 0 ELSE Head(scores) + Sum(Tail(scores))

RECURSIVE Gcd(_, _)
Gcd(a, b) == IF b = 0 THEN a ELSE Gcd(b, a % b)

\* the number num/den hundredths, reduced (num >= 0, den > 0)
Frac(num, den) ==
    LET g == Gcd(num, den) IN [num |-> num \div g, den |-> den \div g]

\* fault: the first score returned instead of the mean
OverallProbFirstOnly(sentence_scores) ==
    IF sentence_scores # <<>> THEN Frac(Head(sentence_scores), 1) ELSE Frac(0, 1)

\* sum(sentence_scores) / len(sentence_scores) if sentence_scores else 0.0, line 52
OverallProb(sentence_scores) ==
    IF sentence_scores # <<>>
    THEN Frac(Sum(sentence_scores), Len(sentence_scores))
    ELSE Frac(0, 1)

(****************************** rendering **********************************)
StrongRed ==
    <<"r","g","b","a","(","2","5","5",","," ","7","7",","," ","7","7",","," ","0",".","6",
      ")">>
Orange ==
    <<"r","g","b","a","(","2","5","5",","," ","1","6","5",","," ","0",","," ","0",".","5",
      ")">>
Transparent ==
    <<"t","r","a","n","s","p","a","r","e","n","t">>

\* fault: >= in place of > at both thresholds
ColorInclusive(score) ==
    IF score >= StrongThreshold THEN StrongRed
    ELSE IF score >= ModerateThreshold THEN Orange
    ELSE Transparent

\* the if/elif/else of lines 42-47
Color(score) ==
    IF score > StrongThreshold THEN StrongRed
    ELSE IF score > ModerateThreshold THEN Orange
    ELSE Transparent

AmpEntity == <<"&","a","m","p",";">>
LtEntity == <<"&","l","t",";">>
GtEntity == <<"&","g","t",";">>
QuotEntity == <<"&","q","u","o","t",";">>
AposEntity == <<"&","#","x","2","7",";">>

\* s.replace(ch, rep) for a one-character ch
Replace(s, ch, rep) ==
    Concat([i \in 1..Len(s) |-> IF s[i] = ch THEN rep ELSE <<s[i]>>])

\* fault: html.escape(s, quote=False)
HtmlEscapeNoQuote(s) ==
    Replace(Replace(Replace(s, "&", AmpEntity), "<", LtEntity), ">", GtEntity)

\* html.escape(s): & first, then <, >, " and '
HtmlEscape(s) ==
    Replace(Replace(Replace(Replace(Replace(s,
        "&", AmpEntity), "<", LtEntity), ">", GtEntity), "\"", QuotEntity), "'", AposEntity)

SpanOpenPrefix ==
    <<"<","s","p","a","n"," ","s","t","y","l","e","=","\"","b","a","c","k","g","r","o",
      "u","n","d","-","c","o","l","o","r",":"," ">>
SpanOpenSuffix ==
    <<";"," ","p","a","d","d","i","n","g",":"," ","2","p","x"," ","1","p","x",";"," ","l",
      "i","n","e","-","h","e","i","g","h","t",":"," ","1",".","7",";","\"",">">>
SpanClose ==
    <<"<","/","s","p","a","n",">"," ">>

\* the f-string of line 50
Span(sent, score) ==
    SpanOpenPrefix \o Color(score) \o SpanOpenSuffix \o HtmlEscape(sent) \o SpanClose

\* the loop of lines 40-50 over zip(sentences, sentence_scores)
HighlightedText(sentences, sentence_scores) ==
    Concat([i \in 1..Min(Len(sentences), Len(sentence_scores)) |->
                Span(sentences[i], sentence_scores[i])])

\* lines 33-53: what analyze_and_highlight returns once the detector answered
AnalyzeResult(sentences, results) ==
    LET sentence_scores == SentenceScores(results)
    IN [highlighted_text |-> HighlightedText(sentences, sentence_scores),
        overall_prob |-> OverallProb(sentence_scores)]

\* return "", 0.0 of line 29
EmptyResult == [highlighted_text |-> <<>>, overall_prob |-> Frac(0, 1)]

\* lines 23-53; detector maps the sentence list it is called with to its results
analyze_and_highlight(detector_fn, text) ==
    LET sentences == simple_sentence_tokenize(text)
    IN IF sentences = <<>>
       THEN EmptyResult
       ELSE AnalyzeResult(sentences, detector_fn[sentences])

(************************* verdict and progress bar ************************)
\* round(overall_ai_prob * 100, 1) of line 183, in tenths of a percent; a mean of at
\* most three scores in hundredths is never half-way between two tenths
Percent(overall_prob) == (20 * overall_prob.num + overall_prob.den) \div (2 * overall_prob.den)

\* the if/elif/else of lines 186-191 on overall_ai_prob = num/den hundredths
Verdict(overall_prob) ==
    IF overall_prob.num >= LikelyAIThreshold * overall_prob.den THEN "likely-AI"
    ELSE IF overall_prob.num > PossiblyAIThreshold * overall_prob.den THEN "possibly-AI"
    ELSE "likely-human"

\* the if/elif/else of lines 194-199
BarColor(overall_prob) ==
    IF overall_prob.num >= LikelyAIThreshold * overall_prob.den THEN "reddish"
    ELSE IF overall_prob.num > PossiblyAIThreshold * overall_prob.den THEN "orangey"
    ELSE "bluish"

(************************** the detector's answers *************************)
LabelFake == <<"f","a","k","e">>
LabelFakeUpper == <<"F","A","K","E">>
LabelReal == <<"r","e","a","l">>
LabelOther == <<"L","A","B","E","L","_","1">>

Labels == {LabelFake, LabelFakeUpper, LabelReal, LabelOther}

\* confidences in hundredths; -20 and 120 are outside [0,1]
Confidences == {-20, 0, 5, 25, 40, 50, 70, 75, 80, 90, 120}

WideDomain == [label : Labels, score : Confidences]

\* one answer per highlight tier, and one unexpected label
NarrowDomain ==
    {[label |-> LabelFake, score |-> 90], [label |-> LabelReal, score |-> 80],
     [label |-> LabelFakeUpper, score |-> 60]}

\* what detector(sentences, truncation=True) may return: one result per sentence
DetectorOutputs(sentences, dom) == [1..Len(sentences) -> dom]

(****************************** harness ************************************)
\* one direct call of analyze_and_highlight (lines 27-53) followed by the
\* percentage, verdict and bar colour the page derives from its result (lines 183-199)
TokAlphabet == {".", "?", " ", "\n", "A", "a"}
RenderAlphabet == {"<", ">", "&", "\"", "'", "a", "A", ".", " "}

RECURSIVE Repeat(_, _)
Repeat(s, n) == IF n = 0 THEN <<>> ELSE s \o Repeat(s, n - 1)

\* texts of 0 .. MaxSentences sentences
ScoreTexts == {Repeat(<<"A", "b", ".", " ">>, n) : n \in 0..MaxSentences}

\* texts for direct calls next to the page: the empty and a whitespace-only one
\* (SpecTok, SpecScore and SpecRender make the direct calls on other texts)
DirectTexts == {<<>>, <<" ", "\n">>}

\* fault: one detector call per sentence
CallPerSentence(sentences) ==
    [i \in 1..Len(sentences) |-> [inputs |-> <<sentences[i]>>, truncation |-> TRUE]]

\* detector(sentences, truncation=True), line 31: the calls it makes
DetectorCalls(sentences) == <<[inputs |-> sentences, truncation |-> TRUE]>>

InitH(texts, dom) ==
    /\ h_pc = "start"
    /\ h_text \in texts
    /\ h_dom = dom
    /\ h_sentences = NoValue
    /\ h_results = NoValue
    /\ h_scores = NoValue
    /\ h_calls = <<>>
    /\ h_out = NoValue
    /\ h_verdict = NoString
    /\ h_bar = NoString
    /\ h_percent = -1

\* lines 27-53, then 183-199
H_Call ==
    /\ h_pc = "start"
    /\ h_sentences' = simple_sentence_tokenize(h_text)
    /\ IF h_sentences' = <<>>
       THEN /\ h_out' = EmptyResult
            /\ UNCHANGED <<h_results, h_scores, h_calls>>
       ELSE /\ h_calls' = h_calls \o DetectorCalls(h_sentences')
            /\ \E answer \in DetectorOutputs(h_sentences', h_dom) :
                  /\ h_results' = answer
                  /\ h_scores' = SentenceScores(answer)
                  /\ h_out' = analyze_and_highlight([ss \in {h_sentences'} |-> answer], h_text)
    /\ h_verdict' = Verdict(h_out'.overall_prob)
    /\ h_bar' = BarColor(h_out'.overall_prob)
    /\ h_percent' = Percent(h_out'.overall_prob)
    /\ h_pc' = "done"
    /\ UNCHANGED <<h_text, h_dom>>
    /\ UNCHANGED fvars

(******************************** the page *********************************)
Sessions == 1..NumSessions

NoHandle == 0

\* the slider of line 156: st.slider(label, 50, 600, 200, 50)
SliderMin == 50
SliderMax == 600
SliderDefault == 200
SliderStep == 50

\* the slider's positions
SliderPositions ==
    {m \in SliderMin..SliderMax : \E k \in 0..SliderMax : m = SliderMin + k * SliderStep}

\* the positions explored: the lowest and the default (every text here is at most
\* SliderMin long, so all positions above SliderMin act alike)
MinLens == {m \in SliderPositions : m \in {SliderMin, SliderDefault}}

Pad(prefix, total) == prefix \o [i \in 1..(total - Len(prefix)) |-> "x"]

TwoSentences == <<"H", "i", ".", " ", "Y", "o">>

\* empty, whitespace-only, one character below the lowest threshold, and at it
PageTexts ==
    {<<>>, <<" ", "\n">>, Pad(TwoSentences, SliderMin - 1), Pad(TwoSentences, SliderMin)}

\* what the detector may answer on the page
PageDomain ==
    {[label |-> LabelFake, score |-> 90], [label |-> LabelReal, score |-> 80]}

BlankDisplay ==
    [prompt |-> FALSE, length_warning |-> FALSE, spinner |-> FALSE, error |-> FALSE,
     verdict |-> NoString, bar |-> NoString, percent |-> -1, highlighted |-> NoValue]

InitPage ==
    /\ pc = [s \in Sessions |-> "idle"]
    /\ text_area = [s \in Sessions |-> <<>>]
    /\ min_len = [s \in Sessions |-> SliderDefault]
    /\ analyze = [s \in Sessions |-> FALSE]
    /\ detector = [s \in Sessions |-> NoHandle]
    /\ calls = [s \in Sessions |-> <<>>]
    /\ answers = [s \in Sessions |-> NoValue]
    /\ display = [s \in Sessions |-> BlankDisplay]
    /\ cache = NoHandle
    /\ lock = 0
    /\ builds = 0

\* every script run starts from an empty page with no handle and no calls
Rerun(s, clicked) ==
    /\ analyze' = [analyze EXCEPT ![s] = clicked]
    /\ detector' = [detector EXCEPT ![s] = NoHandle]
    /\ calls' = [calls EXCEPT ![s] = <<>>]
    /\ answers' = [answers EXCEPT ![s] = NoValue]

\* the user edits the text_area or moves the slider: a run with analyze = False (line 159)
Edit(s) ==
    /\ pc[s] = "idle"
    /\ \E t \in PageTexts, m \in MinLens :
          /\ <<t, m>> # <<text_area[s], min_len[s]>>
          /\ text_area' = [text_area EXCEPT ![s] = t]
          /\ min_len' = [min_len EXCEPT ![s] = m]
    /\ Rerun(s, FALSE)
    /\ display' = [display EXCEPT ![s] = BlankDisplay]
    /\ UNCHANGED <<pc, cache, lock, builds>>
    /\ UNCHANGED hvars

\* fault: the emptiness test of line 160 left out
IsBlankNever(t) == FALSE

\* not text.strip(), line 160
IsBlank(t) == Strip(t) = <<>>

\* len(text) < min_len, line 162
BelowThreshold(t, m) == Len(t) < m

\* the user presses the button: a run with analyze = True, lines 159-173
Click(s) ==
    /\ pc[s] = "idle"
    /\ Rerun(s, TRUE)
    /\ IF IsBlank(text_area[s])
       THEN /\ display' = [display EXCEPT ![s] = [BlankDisplay EXCEPT !.prompt = TRUE]]
            /\ UNCHANGED pc
       ELSE IF BelowThreshold(text_area[s], min_len[s])
       THEN /\ display' = [display EXCEPT ![s] =
                              [BlankDisplay EXCEPT !.length_warning = TRUE]]
            /\ UNCHANGED pc
       ELSE /\ display' = [display EXCEPT ![s] = [BlankDisplay EXCEPT !.spinner = TRUE]]
            /\ pc' = [pc EXCEPT ![s] = "load"]
    /\ UNCHANGED <<text_area, min_len, cache, lock, builds>>
    /\ UNCHANGED hvars

\* fault: load_detector without @st.cache_resource
CachedDetectorNever == NoHandle

\* st.cache_resource's lookup of load_detector's entry, line 18
CachedDetector == cache

\* load_detector() returned h: lines 176-179
GotDetector(s, h) ==
    /\ detector' = [detector EXCEPT ![s] = h]
    /\ display' = [display EXCEPT ![s].spinner = FALSE]
    /\ pc' = [pc EXCEPT ![s] = "analyze"]

\* line 176: the cache is looked up first
LoadLookup(s) ==
    /\ pc[s] = "load"
    /\ IF CachedDetector # NoHandle
       THEN GotDetector(s, CachedDetector)
       ELSE /\ pc' = [pc EXCEPT ![s] = "miss"]
            /\ UNCHANGED <<detector, display>>
    /\ UNCHANGED <<text_area, min_len, analyze, calls, answers, cache, lock, builds>>
    /\ UNCHANGED hvars

\* on a miss the run takes the cache's lock and looks again
LoadAcquire(s) ==
    /\ pc[s] = "miss"
    /\ lock = 0
    /\ IF CachedDetector # NoHandle
       THEN GotDetector(s, CachedDetector) /\ UNCHANGED lock
       ELSE /\ lock' = s
            /\ pc' = [pc EXCEPT ![s] = "building"]
            /\ UNCHANGED <<detector, display>>
    /\ UNCHANGED <<text_area, min_len, analyze, calls, answers, cache, builds>>
    /\ UNCHANGED hvars

\* line 21 returns: the handle is stored and returned
LoadBuilt(s) ==
    /\ pc[s] = "building"
    /\ builds < MaxBuilds
    /\ builds' = builds + 1
    /\ cache' = builds + 1
    /\ lock' = 0
    /\ GotDetector(s, builds + 1)
    /\ UNCHANGED <<text_area, min_len, analyze, calls, answers>>
    /\ UNCHANGED hvars

\* fault: a failure sends the run back to load_detector
AfterExceptionRetry == "load"

\* no try/except around lines 176 and 182: an exception ends the script run
AfterException == "idle"

\* line 21 raises: nothing is stored, the run ends with the exception shown
LoadFailed(s) ==
    /\ pc[s] = "building"
    /\ lock' = 0
    /\ display' = [display EXCEPT ![s].error = TRUE]
    /\ pc' = [pc EXCEPT ![s] = AfterException]
    /\ UNCHANGED <<text_area, min_len, analyze, detector, calls, answers, cache, builds>>
    /\ UNCHANGED hvars

\* lines 183-226: everything shown on success
ShowResult(s, out) ==
    display' = [display EXCEPT ![s].verdict = Verdict(out.overall_prob),
                               ![s].bar = BarColor(out.overall_prob),
                               ![s].percent = Percent(out.overall_prob),
                               ![s].highlighted = out.highlighted_text]

\* line 182 up to the detector call of line 31 (or the return of line 29)
CallDetector(s) ==
    /\ pc[s] = "analyze"
    /\ LET sentences == simple_sentence_tokenize(text_area[s])
       IN IF sentences = <<>>
          THEN /\ ShowResult(s, EmptyResult)
               /\ pc' = [pc EXCEPT ![s] = "idle"]
               /\ UNCHANGED calls
          ELSE /\ calls' = [calls EXCEPT ![s] = calls[s] \o DetectorCalls(sentences)]
               /\ pc' = [pc EXCEPT ![s] = "inference"]
               /\ UNCHANGED display
    /\ UNCHANGED <<text_area, min_len, analyze, detector, answers, cache, lock, builds>>
    /\ UNCHANGED hvars

\* the detector answers: lines 33-53 and 183-226
Inferred(s) ==
    /\ pc[s] = "inference"
    /\ LET sentences == simple_sentence_tokenize(text_area[s])
       IN \E answer \in DetectorOutputs(sentences, PageDomain) :
             /\ answers' = [answers EXCEPT ![s] = answer]
             /\ ShowResult(s, analyze_and_highlight([ss \in {sentences} |-> answer],
                                                    text_area[s]))
    /\ pc' = [pc EXCEPT ![s] = "idle"]
    /\ UNCHANGED <<text_area, min_len, analyze, detector, calls, cache, lock, builds>>
    /\ UNCHANGED hvars

\* the detector raises at line 31: the run ends with the exception shown
InferenceFailed(s) ==
    /\ pc[s] = "inference"
    /\ display' = [display EXCEPT ![s].error = TRUE]
    /\ pc' = [pc EXCEPT ![s] = AfterException]
    /\ UNCHANGED <<text_area, min_len, analyze, detector, calls, answers, cache, lock, builds>>
    /\ UNCHANGED hvars

(***************************** specifications ******************************)
Init == InitPage /\ InitH(DirectTexts, {[label |-> LabelFake, score |-> 90]})

Next ==
    \/ \E s \in Sessions : Edit(s)
    \/ \E s \in Sessions : Click(s)
    \/ \E s \in Sessions : LoadLookup(s)
    \/ \E s \in Sessions : LoadAcquire(s)
    \/ \E s \in Sessions : LoadBuilt(s)
    \/ \E s \in Sessions : LoadFailed(s)
    \/ \E s \in Sessions : CallDetector(s)
    \/ \E s \in Sessions : Inferred(s)
    \/ \E s \in Sessions : InferenceFailed(s)
    \/ H_Call

Spec == Init /\ [][Next]_vars

NextH == H_Call

InitTok ==
    InitPage /\ InitH(StringsUpTo(TokAlphabet, MaxTokLen), {[label |-> LabelFake, score |-> 90]})
InitScore == InitPage /\ InitH(ScoreTexts, WideDomain)
InitRender == InitPage /\ InitH(StringsUpTo(RenderAlphabet, MaxRenderLen), NarrowDomain)

SpecTok == InitTok /\ [][NextH]_vars
SpecScore == InitScore /\ [][NextH]_vars
SpecRender == InitRender /\ [][NextH]_vars
(************************ reading a rendered page **************************)
AllWhitespace(t) == \A i \in 1..Len(t) : t[i] \in {" ", "\n", "\t"}

NonWhitespace(t) == SelectSeq(t, LAMBDA c : c \notin {" ", "\n", "\t"})

HasPrefixAt(s, pat, i) ==
    i + Len(pat) - 1 <= Len(s) /\ SubSeq(s, i, i + Len(pat) - 1) = pat

\* the first position >= from that holds ch, 0 if there is none
IndexFrom(s, ch, from) ==
    LET hits == {j \in from..Len(s) : s[j] = ch}
    IN IF hits = {} THEN 0 ELSE CHOOSE j \in hits : \A m \in hits : j <= m

ParseError == [color |-> <<"$bad">>, content |-> <<"$bad">>]

RECURSIVE ParseSpans(_, _)
\* the spans of a highlighted text from position i on: each must be the wrapper
\* of line 50 around a content without '<', followed by one space
ParseSpans(s, i) ==
    IF i > Len(s) THEN <<>>
    ELSE IF ~HasPrefixAt(s, SpanOpenPrefix, i) THEN <<ParseError>>
    ELSE LET c0 == i + Len(SpanOpenPrefix)
             semi == IndexFrom(s, ";", c0)
         IN IF semi = 0 \/ ~HasPrefixAt(s, SpanOpenSuffix, semi) THEN <<ParseError>>
            ELSE LET t0 == semi + Len(SpanOpenSuffix)
                     lt == IndexFrom(s, "<", t0)
                 IN IF lt = 0 \/ ~HasPrefixAt(s, SpanClose, lt) THEN <<ParseError>>
                    ELSE <<[color |-> SubSeq(s, c0, semi - 1),
                            content |-> SubSeq(s, t0, lt - 1)]>>
                         \o ParseSpans(s, lt + Len(SpanClose))

Spans(s) == ParseSpans(s, 1)

WellFormed(spans) == \A i \in 1..Len(spans) : spans[i] # ParseError

Entities ==
    {<<AmpEntity, "&">>, <<LtEntity, "<">>, <<GtEntity, ">">>,
     <<QuotEntity, "\"">>, <<AposEntity, "'">>}

RECURSIVE Unescape(_)
\* the text an escaped content stands for; "$bad" marks an '&' that starts no entity
Unescape(s) ==
    IF s = <<>> THEN <<>>
    ELSE IF Head(s) # "&" THEN <<Head(s)>> \o Unescape(Tail(s))
    ELSE LET es == {e \in Entities : HasPrefixAt(s, e[1], 1)}
         IN IF es = {} THEN <<"$bad">>
            ELSE LET e == CHOOSE e \in es : TRUE
                 IN <<e[2]>> \o Unescape(SubSeq(s, Len(e[1]) + 1, Len(s)))

NoRawMarkup(content) ==
    /\ \A i \in 1..Len(content) : content[i] \notin {"<", ">", "\"", "'"}
    /\ \A i \in 1..Len(content) :
          content[i] = "&" => \E e \in Entities : HasPrefixAt(content, e[1], i)

Count(s, ch) == Cardinality({i \in 1..Len(s) : s[i] = ch})

RECURSIVE Total(_)
Total(xs) == IF xs = <<>> THEN 0 ELSE Head(xs) + Total(Tail(xs))

\* the highlight tier a colour stands for
TierOf(color) ==
    IF color = StrongRed THEN "strong"
    ELSE IF color = Orange THEN "moderate"
    ELSE IF color = Transparent THEN "none"
    ELSE "unknown"

\* the tier the spec gives a score in hundredths
ExpectedTier(score) ==
    IF score > 75 THEN "strong" ELSE IF score > 50 THEN "moderate" ELSE "none"

\* the verdict the spec gives the probability num/den hundredths
ExpectedVerdict(o) ==
    IF o.num >= 70 * o.den THEN "likely-AI"
    ELSE IF o.num > 40 * o.den THEN "possibly-AI"
    ELSE "likely-human"

\* the AI probability the spec gives a (label, confidence) pair, in hundredths
ExpectedScore(r) ==
    LET p == IF r.label \in {LabelFake, LabelFakeUpper} THEN r.score ELSE 100 - r.score
    IN IF p < 0 THEN 0 ELSE IF p > 100 THEN 100 ELSE p

NoResultShown(d) == d.verdict = NoString /\ d.bar = NoString /\ d.highlighted = NoValue

Running(s) == pc[s] \in {"load", "miss", "building", "analyze", "inference"}

(******************************** claims ***********************************)
\* C1 (as claimed): a finished analyze request whose text is non-empty but shorter
\* than the minimum length has loaded and called the classifier and shows a result
\* together with the unreliability warning, unless the classifier failed.
C1_BelowThresholdProceeds ==
    \A s \in Sessions :
        (/\ pc[s] = "idle" /\ analyze[s]
         /\ ~AllWhitespace(text_area[s])
         /\ Len(text_area[s]) < min_len[s])
        => \/ display[s].error
           \/ /\ detector[s] # NoHandle
              /\ Len(calls[s]) = 1
              /\ ~NoResultShown(display[s])
              /\ display[s].length_warning

\* C2: an analyze request on empty or whitespace-only text ends at once with only
\* the prompt shown, without a detector handle and without a detector call; and a
\* direct analyze_and_highlight call on a text with zero sentences returns
\* ("", 0.0) without calling the detector.
C2_EmptyInputBlocks ==
    /\ \A s \in Sessions :
          (analyze[s] /\ AllWhitespace(text_area[s]))
          => /\ pc[s] = "idle"
             /\ detector[s] = NoHandle
             /\ calls[s] = <<>>
             /\ answers[s] = NoValue
             /\ display[s] = [BlankDisplay EXCEPT !.prompt = TRUE]
    /\ \A s \in Sessions : display[s].prompt => NoResultShown(display[s])
    /\ (h_pc = "done" /\ AllWhitespace(h_text))
       => /\ h_sentences = <<>>
          /\ h_calls = <<>>
          /\ h_out = [highlighted_text |-> <<>>, overall_prob |-> [num |-> 0, den |-> 1]]

C2_Witness ==
    /\ \E s \in Sessions :
          /\ analyze[s] /\ text_area[s] = <<" ", "\n">> /\ display[s].prompt
          /\ cache # NoHandle
    /\ h_pc = "done" /\ h_text = <<" ", "\n">> /\ h_calls = <<>>

\* C3: the classifier is built at most once; every handle a run holds is that one
\* build; a build is only ever completed by a run that reached the analysis branch
\* (button pressed, text not blank, text at least min_len long).
C3_BuiltAtMostOnce ==
    /\ [](/\ builds <= 1
          /\ (cache = NoHandle <=> builds = 0)
          /\ \A s \in Sessions : detector[s] # NoHandle => (detector[s] = cache /\ builds = 1)
          /\ \A s \in Sessions :
                (Running(s) \/ detector[s] # NoHandle)
                => /\ analyze[s]
                   /\ ~AllWhitespace(text_area[s])
                   /\ Len(text_area[s]) >= min_len[s])
    /\ [][builds' # builds =>
            /\ builds = 0 /\ builds' = 1
            /\ \E s \in Sessions : pc[s] = "building" /\ detector'[s] = cache']_vars

C3_Witness ==
    /\ builds = 1
    /\ \A s \in Sessions : detector[s] = cache /\ detector[s] # NoHandle

\* C4: when load_detector or the detector call has failed, no result element is on
\* the page and the run has ended (no retry); result elements are on the page only
\* together, after the detector answered, and never while a run is in progress.
C4_NoPartialResults ==
    \A s \in Sessions :
        /\ display[s].error => (NoResultShown(display[s]) /\ pc[s] = "idle"
                                /\ answers[s] = NoValue /\ Len(calls[s]) <= 1)
        /\ Running(s) => NoResultShown(display[s])
        /\ ~NoResultShown(display[s])
           => /\ answers[s] # NoValue
              /\ display[s].verdict # NoString
              /\ display[s].bar # NoString
              /\ display[s].highlighted # NoValue
              /\ ~display[s].error

C4_Witness ==
    \E s, t \in Sessions :
        /\ display[s].error /\ calls[s] # <<>>
        /\ display[t].error /\ calls[t] = <<>> /\ display[t].spinner

\* C5: after a call, every span's colour is the tier of its sentence's score with
\* boundaries 0.75 and 0.5 (exactly 0.75 moderate, exactly 0.5 none), the verdict
\* is the tier of the overall probability with boundaries 0.7 and 0.4 (exactly
\* 0.7 likely-AI, exactly 0.4 likely-human), and the bar's bucket is the verdict's.
C5_TierBoundaries ==
    h_pc = "done" =>
        /\ h_verdict = ExpectedVerdict(h_out.overall_prob)
        /\ h_bar = (CASE h_verdict = "likely-AI" -> "reddish"
                      [] h_verdict = "possibly-AI" -> "orangey"
                      [] OTHER -> "bluish")
        /\ h_sentences # <<>> =>
              LET spans == Spans(h_out.highlighted_text)
              IN /\ Len(spans) = Len(h_scores)
                 /\ \A i \in 1..Len(spans) : TierOf(spans[i].color) = ExpectedTier(h_scores[i])

C5_Witness ==
    /\ h_pc = "done" /\ h_sentences # <<>>
    /\ h_scores = <<75, 5>>
    /\ Spans(h_out.highlighted_text)[1].color = Orange
    /\ Spans(h_out.highlighted_text)[2].color = Transparent
    /\ h_out.overall_prob = [num |-> 40, den |-> 1]
    /\ h_verdict = "likely-human" /\ h_bar = "bluish"

\* C6: each sentence score is in [0,1]; for a confidence in [0,1] it is the
\* confidence when the label is "fake" in any letter case and 1 - confidence for
\* any other label; a confidence outside [0,1] gives the nearer end of [0,1].
C6_Normalize ==
    (h_pc = "done" /\ h_sentences # <<>>) =>
        /\ Len(h_scores) = Len(h_results)
        /\ \A i \in 1..Len(h_results) :
              LET r == h_results[i]
                  fake == r.label \in {LabelFake, LabelFakeUpper}
              IN /\ h_scores[i] >= 0 /\ h_scores[i] <= 100
                 /\ (r.score \in 0..100 /\ fake) => h_scores[i] = r.score
                 /\ (r.score \in 0..100 /\ ~fake) => h_scores[i] = 100 - r.score
                 /\ (r.score > 100) => h_scores[i] = (IF fake THEN 100 ELSE 0)
                 /\ (r.score < 0) => h_scores[i] = (IF fake THEN 0 ELSE 100)

C6_Witness ==
    /\ h_pc = "done" /\ h_sentences # <<>>
    /\ h_results = <<[label |-> LabelFakeUpper, score |-> 120],
                     [label |-> LabelOther, score |-> 25]>>
    /\ h_scores = <<100, 75>>

\* C7: the overall probability is the arithmetic mean of the sentence scores and
\* lies in [0,1]; with no sentences it is 0.0; results [("fake", 0.9), ("real", 0.8)]
\* give scores [0.9, 0.2], overall 0.55, verdict possibly-AI, tiers strong and none.
C7_Aggregate ==
    h_pc = "done" =>
        LET o == h_out.overall_prob
        IN /\ o.den > 0 /\ o.num >= 0 /\ o.num <= 100 * o.den
           /\ h_sentences # <<>> => o.num * Len(h_scores) = Total(h_scores) * o.den
           /\ h_sentences = <<>> => (o.num = 0 /\ h_calls = <<>>)
           /\ (h_sentences # <<>> /\ h_results = <<[label |-> LabelFake, score |-> 90],
                            [label |-> LabelReal, score |-> 80]>>)
              => /\ h_scores = <<90, 20>>
                 /\ o.num * 100 = 55 * 100 * o.den
                 /\ h_verdict = "possibly-AI"
                 /\ TierOf(Spans(h_out.highlighted_text)[1].color) = "strong"
                 /\ TierOf(Spans(h_out.highlighted_text)[2].color) = "none"

C7_Witness ==
    /\ h_pc = "done" /\ h_sentences # <<>>
    /\ h_results = <<[label |-> LabelFake, score |-> 90], [label |-> LabelReal, score |-> 80]>>
    /\ h_verdict = "possibly-AI"

\* the positions where the tokenizer's rule allows a split: whitespace directly
\* after '.', '!' or '?' whose run of whitespace ends directly before an uppercase letter
Boundaries(t) ==
    {i \in 2..Len(t) :
        /\ t[i - 1] \in {".", "!", "?"}
        /\ t[i] \in {" ", "\n", "\t"}
        /\ \E j \in (i + 1)..Len(t) :
              /\ t[j] \in UpperCase
              /\ \A m \in i..(j - 1) : t[m] \in {" ", "\n", "\t"}}

\* C8: the sentences are non-empty and trimmed, their non-whitespace characters in
\* order are those of the text, there is one more sentence than allowed split
\* points (none for a blank text), every sentence but the last ends in '.', '!' or
\* '?' and every one but the first starts with an uppercase letter, and a text
\* without a split point is one sentence: the text without its outer whitespace.
C8_SegmentationConserves ==
    h_pc = "done" =>
        LET ss == h_sentences
            n == Len(ss)
        IN /\ \A i \in 1..n :
                 /\ ss[i] # <<>>
                 /\ ss[i][1] \notin {" ", "\n", "\t"}
                 /\ ss[i][Len(ss[i])] \notin {" ", "\n", "\t"}
           /\ NonWhitespace(Concat(ss)) = NonWhitespace(h_text)
           /\ (n = 0 <=> AllWhitespace(h_text))
           /\ ~AllWhitespace(h_text) => n = Cardinality(Boundaries(h_text)) + 1
           /\ \A i \in 1..(n - 1) : ss[i][Len(ss[i])] \in {".", "!", "?"}
           /\ \A i \in 2..n : ss[i][1] \in UpperCase
           /\ (n = 1) =>
                 \E a, b \in 1..Len(h_text) :
                    /\ SubSeq(h_text, a, b) = ss[1]
                    /\ AllWhitespace(SubSeq(h_text, 1, a - 1))
                    /\ AllWhitespace(SubSeq(h_text, b + 1, Len(h_text)))

C8_Witness ==
    /\ h_pc = "done"
    /\ h_text = <<" ", "a", ".", "\n", "A">>
    /\ h_sentences = <<<<"a", ".">>, <<"A">>>>

\* C9: the highlighted text is exactly one well-formed span per sentence, in order,
\* each followed by one space; inside a span there is no raw '<', '>', '"' or "'"
\* and every '&' starts an entity; undoing the entities gives the sentence back.
C9_Escaped ==
    (h_pc = "done" /\ h_sentences # <<>>) =>
        LET html == h_out.highlighted_text
            spans == Spans(html)
        IN /\ WellFormed(spans)
           /\ Len(spans) = Len(h_sentences)
           /\ Count(html, "<") = 2 * Len(h_sentences)
           /\ Count(html, ">") = 2 * Len(h_sentences)
           /\ Count(html, "\"") = 2 * Len(h_sentences)
           /\ Count(html, "'") = 0
           /\ \A i \in 1..Len(spans) :
                 /\ NoRawMarkup(spans[i].content)
                 /\ Unescape(spans[i].content) = h_sentences[i]

C9_Witness ==
    /\ h_pc = "done"
    /\ h_sentences = <<<<"<", "&", "'">>>>
    /\ WellFormed(Spans(h_out.highlighted_text))

\* C10: a run calls the detector at most once, only while holding the handle, on
\* the full ordered sentence list with truncation on; a run that shows a result
\* made exactly one call, and its i-th span holds the i-th sentence in the colour
\* of the tier of the i-th answer's score.
C10_OneBatchedCall ==
    \A s \in Sessions :
        /\ Len(calls[s]) <= 1
        /\ calls[s] # <<>> =>
              /\ detector[s] # NoHandle
              /\ calls[s][1].truncation
              /\ Len(calls[s][1].inputs) = Cardinality(Boundaries(text_area[s])) + 1
              /\ NonWhitespace(Concat(calls[s][1].inputs)) = NonWhitespace(text_area[s])
        /\ pc[s] = "inference" => Len(calls[s]) = 1
        /\ display[s].highlighted # NoValue =>
              LET spans == Spans(display[s].highlighted)
              IN /\ Len(calls[s]) = 1
                 /\ WellFormed(spans)
                 /\ Len(spans) = Len(calls[s][1].inputs)
                 /\ Len(answers[s]) = Len(spans)
                 /\ \A i \in 1..Len(spans) :
                       /\ Unescape(spans[i].content) = calls[s][1].inputs[i]
                       /\ TierOf(spans[i].color) = ExpectedTier(ExpectedScore(answers[s][i]))

C10_Witness ==
    \E s \in Sessions :
        /\ display[s].highlighted # NoValue
        /\ answers[s] = <<[label |-> LabelReal, score |-> 80], [label |-> LabelFake, score |-> 90]>>
        /\ Len(Spans(display[s].highlighted)) = 2
====
